---- MODULE Spec2Model ----
(***************************************************************************)
(* A model of app.py: the upload -> convert -> result -> download          *)
(* lifecycle of the video-to-GIF web application, its three directories    *)
(* (uploads/, gifs/, static/gifs/), the per-browser session record, the    *)
(* age-based sweeper clean_old_files and the FFmpeg command derivation.    *)
(*                                                                         *)
(* The specifications share the module's variables:                        *)
(*   Spec       concurrent requests against the application (threaded)     *)
(*   SpecDeep   the same, one more request per behaviour                   *)
(*   SpecSeq    the same, the requests served one at a time                *)
(*   SpecUpload upload requests, one at a time, over a grid of inputs      *)
(*   SpecSweep  clean_old_files, one system call per step, run by          *)
(*              concurrent requests over one directory                     *)
(*   SpecCmd    convert_video_to_gif's command derivation over a grid of   *)
(*              parameter sets                                             *)
(*   SpecNames  the file names upload_file gives to two uploads            *)
(***************************************************************************)
EXTENDS Integers, Sequences, FiniteSets, TLC

VARIABLES
    now,        \* time.time(), in seconds
    ticks,      \* how many times the clock has advanced
    fs,         \* the three directories: fs[d][name] is the entry name of d
    session,    \* session[s]: the flask session of browser s, key -> value
    req,        \* req[r]: the request served by worker thread r
    started,    \* number of requests accepted so far
    sw,         \* sw[p]: a clean_old_files call in progress (SpecSweep)
    dir0,       \* the directories as they were when the sweeps began (SpecSweep)
    jobs,       \* history: the jobs materialized so far, [sid, input, gif]
    purged,     \* history: the file names whose download ran its cleanup to the end
    latest,     \* history: latest[s] is the last job recorded by an upload of s
    conv,       \* a convert_video_to_gif call (SpecCmd)
    named       \* two uploads and the file names they are given (SpecNames)

vars == <<now, ticks, fs, session, req, started, sw, dir0, jobs, purged, latest, conv, named>>

(***************************************************************************)
(* Bounds of the model.                                                    *)
(***************************************************************************)
\* requests accepted in one behaviour
MaxRequests == 2
\* advances of the clock in one behaviour
MaxTicks == 1

(***************************************************************************)
(* Program constants.                                                      *)
(***************************************************************************)
UPLOAD_FOLDER == "uploads"
OUTPUT_FOLDER == "gifs"
STATIC_GIFS == "static/gifs"
Dirs == {UPLOAD_FOLDER, OUTPUT_FOLDER, STATIC_GIFS}
ALLOWED_EXTENSIONS == {"webm", "mp4", "avi", "mov", "mkv", "flv", "wmv", "mpeg"}
\* seconds in one hour: clean_old_files compares an age with max_age_hours * 3600
SecondsPerHour == 3600
\* clean_old_files' default max_age_hours, used by upload_file
DefaultMaxAgeHours == 24
\* max_age_hours passed by cleanup_before_request
SampledMaxAgeHours == 1
\* request.form.get('fps', 10)
DefaultFps == 10

(***************************************************************************)
(* Strings.  A file name is the sequence of its tokens: "." and "/" are    *)
(* tokens of their own, a run of other characters is one token, and the    *)
(* empty string is the empty sequence.  A form value is the sequence of    *)
(* its characters.                                                         *)
(***************************************************************************)
EmptyStr == << >>

\* str.lower() on the tokens used
Lower(t) ==
    CASE t = "MP4" -> "mp4"
      [] t = "MOV" -> "mov"
      [] t = "EXE" -> "exe"
      [] OTHER -> t

\* the largest index of token c in f, 0 when absent
LastIndexOf(f, c) ==
    LET I == {i \in 1..Len(f) : f[i] = c}
    IN  IF I = {} THEN 0 ELSE CHOOSE i \in I : \A j \in I : j <= i

\* '.' in filename and filename.rsplit('.', 1)[1].lower() in ALLOWED_EXTENSIONS
\* a check that takes any extension
allowed_any(f) ==
    LastIndexOf(f, ".") > 0

\* lines 24-25
allowed_file(f) ==
    LET d == LastIndexOf(f, ".")
    IN  d > 0 /\ Len(f) = d + 1 /\ Lower(f[Len(f)]) \in ALLOWED_EXTENSIONS

RECURSIVE StripLeft(_)
\* str.lstrip("._")
StripLeft(f) ==
    IF f # << >> /\ Head(f) \in {".", "_"} THEN StripLeft(Tail(f)) ELSE f

RECURSIVE StripRight(_)
\* str.rstrip("._")
StripRight(f) ==
    IF f # << >> /\ f[Len(f)] \in {".", "_"}
    THEN StripRight(SubSeq(f, 1, Len(f) - 1)) ELSE f

RECURSIVE JoinWords(_)
\* "_".join(filename.split()) after every path separator became a space:
\* a run of separators becomes one "_" and a trailing run vanishes (a leading
\* "_" is removed by the strip that follows)
JoinWords(f) ==
    IF f = << >> THEN << >>
    ELSE IF Head(f) = "/"
         THEN IF Tail(f) = << >> THEN << >>
              ELSE IF Head(Tail(f)) = "/" THEN JoinWords(Tail(f))
              ELSE <<"_">> \o JoinWords(Tail(f))
         ELSE <<Head(f)>> \o JoinWords(Tail(f))

\* werkzeug.utils.secure_filename
secure_filename(f) == StripRight(StripLeft(JoinWords(f)))

\* os.path.basename
basename(f) == SubSeq(f, LastIndexOf(f, "/") + 1, Len(f))

\* os.path.splitext(name)[0], for a name that does not start with a dot
splitext_root(f) ==
    LET d == LastIndexOf(f, ".")
    IN  IF d > 1 THEN SubSeq(f, 1, d - 1) ELSE f

\* f"{timestamp}_{secure_filename(file.filename)}"
raw_filename(t, f) == <<ToString(t), "_">> \o secure_filename(f)

\* f"{os.path.splitext(filename)[0]}.gif"
gif_filename_of(raw) == splitext_root(raw) \o <<".", "gif">>

Digits == {"0", "1", "2", "3", "4", "5", "6", "7", "8", "9"}

DigitVal(c) ==
    CASE c = "0" -> 0 [] c = "1" -> 1 [] c = "2" -> 2 [] c = "3" -> 3
      [] c = "4" -> 4 [] c = "5" -> 5 [] c = "6" -> 6 [] c = "7" -> 7
      [] c = "8" -> 8 [] c = "9" -> 9

RECURSIVE DigitsVal(_)
DigitsVal(s) ==
    IF s = << >> THEN 0
    ELSE 10 * DigitsVal(SubSeq(s, 1, Len(s) - 1)) + DigitVal(s[Len(s)])

AllDigits(s) == \A i \in 1..Len(s) : s[i] \in Digits

\* str.isdigit()
isdigit(s) == s # << >> /\ AllDigits(s)

\* the value a conversion raises ValueError with
ValueError == [ok |-> FALSE, v |-> 0]

Val(n) == [ok |-> TRUE, v |-> n]

\* int(s) for a string: an optional sign and decimal digits
int_of(s) ==
    LET body == IF s # << >> /\ Head(s) \in {"-", "+"} THEN Tail(s) ELSE s
        neg == s # << >> /\ Head(s) = "-"
    IN  IF isdigit(body)
        THEN Val(IF neg THEN 0 - DigitsVal(body) ELSE DigitsVal(body))
        ELSE ValueError

\* float(s) for a string: an optional sign, digits and at most one fractional
\* digit; the value is kept in tenths of a second
float_of(s) ==
    LET body == IF s # << >> /\ Head(s) \in {"-", "+"} THEN Tail(s) ELSE s
        neg == s # << >> /\ Head(s) = "-"
        d == LastIndexOf(body, ".")
        ip == IF d = 0 THEN body ELSE SubSeq(body, 1, d - 1)
        fp == IF d = 0 THEN << >> ELSE SubSeq(body, d + 1, Len(body))
        mag == 10 * DigitsVal(ip) + DigitsVal(fp)
    IN  IF AllDigits(ip) /\ AllDigits(fp) /\ Len(fp) <= 1 /\ Len(ip) + Len(fp) > 0
        THEN Val(IF neg THEN 0 - mag ELSE mag)
        ELSE ValueError

(***************************************************************************)
(* Optional values: None, or Some(x).                                      *)
(***************************************************************************)
None == [some |-> FALSE, v |-> 0]

Some(x) == [some |-> TRUE, v |-> x]

(***************************************************************************)
(* The file system.  fs[d] maps the names present in directory d to their  *)
(* entries.  An entry is a regular file or a symbolic link; the only links *)
(* the program creates live in static/gifs and point at the entry of the   *)
(* same name in gifs (os.path.relpath(gif_path, ...), lines 172-173).      *)
(***************************************************************************)
EmptyDir == << >>

\* a regular file: modification time, size, and whether its writer has finished
\* (a subdirectory is an entry of kind "dir")
File(t, n, c) == [kind |-> "file", mtime |-> t, size |-> n, complete |-> c]

\* a symbolic link created at time t
Link(t) == [kind |-> "link", mtime |-> t, size |-> 0, complete |-> TRUE]

\* a path: os.path.join(directory, name)
Path(d, n) == [dir |-> d, name |-> n]

\* os.path.lexists / os.path.islink: the entry itself, links not followed
LExists(f, p) == p.name \in DOMAIN f[p.dir]

islink(f, p) == LExists(f, p) /\ f[p.dir][p.name].kind = "link"

\* the path a stat() of p ends at: a link is followed to gifs/<same name>
Resolve(f, p) ==
    IF islink(f, p) THEN Path(OUTPUT_FOLDER, p.name) ELSE p

\* os.path.exists: follows links, so a dangling link does not exist
exists(f, p) == LExists(f, p) /\ LExists(f, Resolve(f, p))

\* os.path.isfile: follows links
isfile(f, p) == exists(f, p) /\ f[Resolve(f, p).dir][Resolve(f, p).name].kind = "file"

\* os.path.getmtime / os.path.getsize: follow links (defined when exists)
getmtime(f, p) == f[Resolve(f, p).dir][Resolve(f, p).name].mtime

getsize(f, p) == f[Resolve(f, p).dir][Resolve(f, p).name].size

\* os.remove / os.unlink on an entry that is present: removes the entry itself
remove(f, p) ==
    [f EXCEPT ![p.dir] = [n \in (DOMAIN f[p.dir]) \ {p.name} |-> f[p.dir][n]]]

\* creating or overwriting the entry at p
write(f, p, e) ==
    [f EXCEPT ![p.dir] = [n \in (DOMAIN f[p.dir]) \cup {p.name} |->
                              IF n = p.name THEN e ELSE f[p.dir][n]]]

\* delete_file_safely: remove the file if os.path.exists says it is there
delete_file_safely(f, p) == IF exists(f, p) THEN remove(f, p) ELSE f

\* an age test that also takes the files exactly max_age_hours old
too_old_inclusive(t, mtime, max_age_hours) ==
    (t - mtime) >= max_age_hours * SecondsPerHour

\* line 34: (current_time - os.path.getmtime(file_path)) > max_age_hours * 3600
too_old(t, mtime, max_age_hours) ==
    (t - mtime) > max_age_hours * SecondsPerHour

\* the test of clean_old_files, line 34
Expired(f, p, t, max_age_hours) ==
    isfile(f, p) /\ too_old(t, getmtime(f, p), max_age_hours)

\* clean_old_files(directory, max_age_hours) run without interference at time t
clean_old_files(f, d, t, max_age_hours) ==
    [f EXCEPT ![d] = [n \in {m \in DOMAIN f[d] : ~Expired(f, Path(d, m), t, max_age_hours)}
                          |-> f[d][n]]]

\* the three calls the handlers make, in their order (lines 98-100, 278-280)
SweepAll(f, t, max_age_hours) ==
    clean_old_files(
        clean_old_files(
            clean_old_files(f, UPLOAD_FOLDER, t, max_age_hours),
            OUTPUT_FOLDER, t, max_age_hours),
        STATIC_GIFS, t, max_age_hours)

(***************************************************************************)
(* convert_video_to_gif: the FFmpeg command line, lines 59-83.  str(x) of  *)
(* a number is the token [str |-> x]; the scale filter is a token too.     *)
(***************************************************************************)
Str(x) == [str |-> x]

ScaleFilter(w) == [scale |-> w]

Arg(a) == [arg |-> a]

\* lines 62-63
SeekArgs(start_time) ==
    IF start_time.some THEN <<Arg("-ss"), Str(start_time.v)>> ELSE << >>

\* a window that passes the end time as the duration
WindowArgsEnd(start_time, end_time) ==
    IF end_time.some /\ start_time.some
    THEN <<Arg("-t"), Str(end_time.v)>>
    ELSE IF end_time.some THEN <<Arg("-to"), Str(end_time.v)>>
    ELSE << >>

\* lines 66-70
WindowArgs(start_time, end_time) ==
    IF end_time.some /\ start_time.some
    THEN <<Arg("-t"), Str(end_time.v - start_time.v)>>
    ELSE IF end_time.some THEN <<Arg("-to"), Str(end_time.v)>>
    ELSE << >>

\* lines 76-77
ScaleArgs(width) ==
    IF width.some THEN <<Arg("-vf"), ScaleFilter(width.v)>> ELSE << >>

BuildCmd(input_path, output_path, start_time, end_time, fps, width) ==
    <<Arg("ffmpeg"), Arg("-i"), input_path>>
        \o SeekArgs(start_time)
        \o WindowArgs(start_time, end_time)
        \o <<Arg("-r"), Str(fps)>>
        \o ScaleArgs(width)
        \o <<Arg("-f"), Arg("gif"), output_path>>

(***************************************************************************)
(* The session.  session[s] maps the keys present to their values.         *)
(***************************************************************************)
Sessions == {"s1", "s2"}

\* no job recorded yet
NoJob == [gif |-> << >>, original |-> << >>, size |-> 0]

EmptySession == << >>

JobKeys ==
    {"gif_filename", "original_filename", "gif_size",
     "input_path", "gif_path", "static_gif_path"}

\* session[k] = v
SessionSet(ss, k, v) == [x \in (DOMAIN ss) \cup {k} |-> IF x = k THEN v ELSE ss[x]]

\* session.pop(k, None) for every k of K
SessionPop(ss, K) == [x \in (DOMAIN ss) \ K |-> ss[x]]

\* session.get(k) for a path: None when the key is missing
SessionGetPath(ss, k) == IF k \in DOMAIN ss THEN Some(ss[k]) ELSE None

(***************************************************************************)
(* Requests.  Worker threads serve requests concurrently (threaded=True,   *)
(* line 285); req[r] is the request of thread r and its local variables.   *)
(***************************************************************************)
Workers == {1, 2}

Absent == <<"<absent>">>

NoForm == [fps |-> Absent, width |-> Absent, start_time |-> Absent, end_time |-> Absent]

NoParams == [fps |-> 0, width |-> None, start_time |-> None, end_time |-> None]

NoGot == [input_path |-> None, gif_path |-> None, static_gif_path |-> None]

NoShown == [rendered |-> FALSE, gif_filename |-> << >>, original_filename |-> << >>,
            gif_size |-> 0]

Idle ==
    [pc |-> "idle", kind |-> "", sid |-> "", haspart |-> FALSE, fname |-> << >>,
     form |-> NoForm, params |-> NoParams, input |-> << >>, gif |-> << >>,
     cmd |-> << >>, exc |-> "", got |-> NoGot, delivered |-> FALSE,
     status |-> "", shown |-> NoShown]

\* the file names a browser submits with an upload (file.filename)
UploadNames ==
    { << >>,
      <<"clip", ".", "exe">>,
      <<"clip", ".", "mp4">> }

\* a form whose start_time is not a number
BadTimeForm ==
    [fps |-> <<"1", "0">>, width |-> << >>,
     start_time |-> <<"a", "b", "c">>, end_time |-> << >>]

\* the forms a browser submits with an upload
Forms == {NoForm, BadTimeForm}

\* request.form.get(k, default)
form_get(form, k, default) == IF form[k] = Absent THEN default ELSE form[k]

\* the sizes FFmpeg's output may have, in bytes
Sizes == {1}

(***************************************************************************)
(* upload_file, lines 102-140: what the checks before the save decide.     *)
(***************************************************************************)
\* lines 118-122
parse_width(form) ==
    LET w == form_get(form, "width", << >>)
    IN  IF w # << >> /\ isdigit(w) THEN Some(int_of(w).v) ELSE None

\* lines 129-137, for one of the two fields: [ok, value]
parse_time(form, k) ==
    LET t == form_get(form, k, << >>)
    IN  IF t # << >>
        THEN IF float_of(t).ok THEN Val(Some(float_of(t).v)) ELSE ValueError
        ELSE Val(None)

\* line 117: int(request.form.get('fps', 10))
parse_fps(form) ==
    IF form.fps = Absent THEN Val(DefaultFps) ELSE int_of(form.fps)

validate(haspart, fname, form) ==
    IF ~haspart THEN "No file part"
    ELSE IF fname = << >> THEN "No selected file"
    ELSE IF ~allowed_file(fname) THEN "Invalid file type"
    ELSE IF ~parse_fps(form).ok THEN "ValueError"
    ELSE IF ~parse_time(form, "start_time").ok \/ ~parse_time(form, "end_time").ok
         THEN "Invalid time format"
    ELSE "ok"

params_of(form) ==
    [fps |-> parse_fps(form).v,
     width |-> parse_width(form),
     start_time |-> parse_time(form, "start_time").v,
     end_time |-> parse_time(form, "end_time").v]

(***************************************************************************)
(* Steps of a request.                                                     *)
(***************************************************************************)
Set(r, rec) == req' = [req EXCEPT ![r] = rec]

\* the record a finished request leaves behind: its session, the exception
\* that ended it (if any), what the result view rendered, and the response
Finished(q, st) ==
    [Idle EXCEPT !.pc = "done", !.kind = q.kind, !.sid = q.sid,
                 !.exc = q.exc, !.shown = q.shown, !.status = st]

Free(r) == req[r].pc \in {"idle", "done"}

\* the names a download or preview request may ask for
RequestNames ==
    {j.gif : j \in jobs} \cup DOMAIN fs[OUTPUT_FOLDER] \cup {<<"nosuch", ".", "gif">>}

\* the first step of the view the request is routed to
ViewOf(kind) ==
    CASE kind = "upload" -> "u_begin"
      [] kind = "result" -> "r_view"
      [] kind = "download" -> "d_view"
      [] kind = "preview" -> "p_view"

\* the routes, lines 94, 203, 220 and 261
Kinds == {"upload", "result", "download", "preview"}

\* the requests a browser may send: uploads with a file name from names and a
\* form from forms, result views, downloads and previews
Requests(names, forms) ==
    {[Idle EXCEPT !.kind = "upload", !.haspart = hp, !.fname = f, !.form = fm] :
        hp \in BOOLEAN, f \in names, fm \in forms}
    \cup {[Idle EXCEPT !.kind = "result"]}
    \cup {[Idle EXCEPT !.kind = k, !.fname = g] :
            k \in {"download", "preview"}, g \in RequestNames}

\* A request arrives at a free worker thread and cleanup_before_request runs,
\* lines 273-280: random.random() < 0.01 is either way.  (The sessions are
\* interchangeable: the first request is s1's.  An upload without a file part
\* carries no file name.)
Arrive(r, names, forms, kinds, limit) ==
    /\ Free(r)
    /\ \A q \in DOMAIN req : Free(q) => r <= q
    /\ started < limit
    /\ started' = started + 1
    /\ \E s \in Sessions, q \in Requests(names, forms) :
          /\ q.kind \in kinds
          /\ started = 0 => s = "s1"
          /\ q.kind = "upload" /\ ~q.haspart => q.fname = << >> /\ q.form = NoForm
          /\ Set(r, [q EXCEPT !.pc = ViewOf(q.kind), !.sid = s])
    /\ \E sampled \in BOOLEAN :
          fs' = IF sampled THEN SweepAll(fs, now, SampledMaxAgeHours) ELSE fs
    /\ UNCHANGED <<now, ticks, session, sw, dir0, jobs, purged, latest, conv, named>>

BeforeRequest(r) == Arrive(r, UploadNames, Forms, Kinds, MaxRequests)

\* upload_file, lines 98-140 and 196-198: the sweep of the three directories,
\* then the checks.  A rejected upload is answered with a redirect to the form;
\* int() of a bad fps is not caught and answers 500.
UBegin(r) ==
    /\ req[r].pc = "u_begin"
    /\ fs' = SweepAll(fs, now, DefaultMaxAgeHours)
    /\ LET v == validate(req[r].haspart, req[r].fname, req[r].form)
       IN  Set(r, IF v = "ok"
                  THEN [req[r] EXCEPT !.pc = "u_save", !.params = params_of(req[r].form),
                                      !.form = NoForm]
                  ELSE IF v = "ValueError"
                  THEN Finished([req[r] EXCEPT !.exc = v], "500")
                  ELSE Finished([req[r] EXCEPT !.exc = v], "302 upload"))
    /\ UNCHANGED <<now, ticks, session, started, sw, dir0, jobs, purged, latest, conv, named>>

\* upload_file, lines 143-153: the names of the job and file.save(input_path)
USave(r) ==
    /\ req[r].pc = "u_save"
    /\ LET filename == raw_filename(now, req[r].fname)
       IN  /\ fs' = write(fs, Path(UPLOAD_FOLDER, filename), File(now, 1, TRUE))
           /\ Set(r, [req[r] EXCEPT !.pc = "u_convert", !.input = filename,
                                    !.gif = gif_filename_of(filename)])
    /\ UNCHANGED <<now, ticks, session, started, sw, dir0, jobs, purged, latest, conv, named>>

InputPath(q) == Path(UPLOAD_FOLDER, q.input)

GifPath(q) == Path(OUTPUT_FOLDER, q.gif)

StaticGifPath(q) == Path(STATIC_GIFS, q.gif)

\* convert_video_to_gif, lines 59-86: the command is built and FFmpeg started.
\* FFmpeg fails at once when its input is gone or when the output exists (the
\* command carries no -y), or for a reason of its own; otherwise it starts
\* writing the output file.
UConvertStart(r) ==
    /\ req[r].pc = "u_convert"
    /\ LET q == req[r]
           cmd == BuildCmd(InputPath(q), GifPath(q), q.params.start_time,
                           q.params.end_time, q.params.fps, q.params.width)
       IN  \E fails \in BOOLEAN :
              IF fails \/ ~isfile(fs, InputPath(q)) \/ LExists(fs, GifPath(q))
              THEN /\ Set(r, [q EXCEPT !.pc = "u_except", !.cmd = cmd,
                                       !.exc = "FFmpeg error"])
                   /\ fs' = fs
              ELSE /\ Set(r, [q EXCEPT !.pc = "u_converting", !.cmd = cmd])
                   /\ fs' = write(fs, GifPath(q), File(now, 0, FALSE))
    /\ UNCHANGED <<now, ticks, session, started, sw, dir0, jobs, purged, latest, conv, named>>

\* lines 86-91: FFmpeg exits.  A non-zero status raises; the output written so
\* far stays.  An output unlinked meanwhile stays unlinked.
UConvertEnd(r) ==
    /\ req[r].pc = "u_converting"
    /\ LET q == req[r]
       IN  \/ /\ Set(r, [q EXCEPT !.pc = "u_except", !.exc = "FFmpeg error"])
              /\ fs' = fs
           \/ \E n \in Sizes :
                /\ Set(r, [q EXCEPT !.pc = "u_exists", !.cmd = << >>,
                                    !.params = NoParams])
                /\ fs' = IF LExists(fs, GifPath(q))
                         THEN write(fs, GifPath(q), File(now, n, TRUE))
                         ELSE fs
    /\ UNCHANGED <<now, ticks, session, started, sw, dir0, jobs, purged, latest, conv, named>>

\* lines 168-169
UExists(r) ==
    /\ req[r].pc = "u_exists"
    /\ fs' = IF exists(fs, StaticGifPath(req[r]))
             THEN remove(fs, StaticGifPath(req[r])) ELSE fs
    /\ Set(r, [req[r] EXCEPT !.pc = "u_symlink"])
    /\ UNCHANGED <<now, ticks, session, started, sw, dir0, jobs, purged, latest, conv, named>>

\* lines 172-173: os.symlink raises FileExistsError when the name is taken
USymlink(r) ==
    /\ req[r].pc = "u_symlink"
    /\ IF LExists(fs, StaticGifPath(req[r]))
       THEN /\ Set(r, [req[r] EXCEPT !.pc = "u_except", !.exc = "FileExistsError"])
            /\ fs' = fs
       ELSE /\ Set(r, [req[r] EXCEPT !.pc = "u_session"])
            /\ fs' = write(fs, StaticGifPath(req[r]), Link(now))
    /\ UNCHANGED <<now, ticks, session, started, sw, dir0, jobs, purged, latest, conv, named>>

\* line 178: a size in bytes as megabytes, size / (1024 * 1024)
MB(size) == [num |-> size, den |-> 1024 * 1024]

\* lines 176-177
SessionHead(ss, q) ==
    SessionSet(SessionSet(ss, "gif_filename", q.gif),
               "original_filename", basename(q.fname))

\* lines 178-183
SessionPaths(ss, q, size) ==
    SessionSet(SessionSet(SessionSet(SessionSet(ss,
        "gif_size", MB(size)),
        "input_path", InputPath(q)),
        "gif_path", GifPath(q)),
        "static_gif_path", StaticGifPath(q))

\* lines 176-189: the job is recorded in the session; os.path.getsize raises
\* when the artifact is gone, after the first two keys were written
USession(r) ==
    /\ req[r].pc = "u_session"
    /\ LET q == req[r]
           s == q.sid
       IN  IF exists(fs, GifPath(q))
           THEN /\ session' = [session EXCEPT ![s] =
                       SessionPaths(SessionHead(@, q), q, getsize(fs, GifPath(q)))]
                /\ jobs' = jobs \cup {[sid |-> s, input |-> q.input, gif |-> q.gif]}
                /\ latest' = [latest EXCEPT ![s] =
                       [gif |-> q.gif, original |-> basename(q.fname),
                        size |-> getsize(fs, GifPath(q))]]
                /\ Set(r, Finished(q, "302 result"))
           ELSE /\ session' = [session EXCEPT ![s] = SessionHead(@, q)]
                /\ jobs' = jobs
                /\ latest' = latest
                /\ Set(r, [q EXCEPT !.pc = "u_except", !.exc = "FileNotFoundError"])
    /\ UNCHANGED <<now, ticks, fs, started, sw, dir0, purged, conv, named>>

\* an except clause that leaves the upload where it is
keep_input(f, q) == f

\* lines 191-195: the except clause of the conversion
on_conversion_error(f, q) == delete_file_safely(f, InputPath(q))

UExcept(r) ==
    /\ req[r].pc = "u_except"
    /\ fs' = on_conversion_error(fs, req[r])
    /\ Set(r, Finished(req[r], "302 upload"))
    /\ UNCHANGED <<now, ticks, session, started, sw, dir0, jobs, purged, latest, conv, named>>

(***************************************************************************)
(* result, lines 203-217.                                                  *)
(***************************************************************************)
RView(r) ==
    /\ req[r].pc = "r_view"
    /\ LET q == req[r]
           ss == session[q.sid]
       IN  IF "gif_filename" \notin DOMAIN ss
           THEN Set(r, Finished(q, "302 upload"))
           ELSE Set(r, Finished(
                    [q EXCEPT !.shown =
                        [rendered |-> TRUE,
                         gif_filename |-> ss["gif_filename"],
                         original_filename |->
                            IF "original_filename" \in DOMAIN ss
                            THEN ss["original_filename"] ELSE <<"unknown">>,
                         gif_size |->
                            IF "gif_size" \in DOMAIN ss
                            THEN ss["gif_size"] ELSE MB(0)]],
                    "200"))
    /\ UNCHANGED <<now, ticks, fs, session, started, sw, dir0, jobs, purged, latest, conv, named>>

(***************************************************************************)
(* send_from_directory: the file is served when os.path.isfile finds it,   *)
(* and NotFound (404) is raised otherwise.                                 *)
(***************************************************************************)
\* serving without looking for the file
send_unchecked(f, d, name) == TRUE

send_from_directory(f, d, name) == isfile(f, Path(d, name))

\* preview_file, lines 261-263
PView(r) ==
    /\ req[r].pc = "p_view"
    /\ Set(r, Finished(req[r],
              IF send_from_directory(fs, STATIC_GIFS, req[r].fname)
              THEN "200" ELSE "404"))
    /\ UNCHANGED <<now, ticks, fs, session, started, sw, dir0, jobs, purged, latest, conv, named>>

(***************************************************************************)
(* download_file, lines 220-258.                                           *)
(***************************************************************************)
\* the callback run on the spot, before the body is streamed
call_at_once(q) == "d_close"

\* @response.call_on_close, lines 227-228: the callback is kept for the close of
\* the response, and the body is streamed next
call_on_close(q) == "d_stream"

\* lines 224-258: the view.  NotFound leaves the view before the callback is
\* registered.
DView(r) ==
    /\ req[r].pc = "d_view"
    /\ IF send_from_directory(fs, OUTPUT_FOLDER, req[r].fname)
       THEN Set(r, [req[r] EXCEPT !.pc = call_on_close(req[r])])
       ELSE Set(r, Finished(req[r], "404"))
    /\ UNCHANGED <<now, ticks, fs, session, started, sw, dir0, jobs, purged, latest, conv, named>>

\* the server sends the body of the response to the client
DStream(r) ==
    /\ req[r].pc = "d_stream"
    /\ Set(r, [req[r] EXCEPT !.pc = "d_close", !.delivered = TRUE])
    /\ UNCHANGED <<now, ticks, fs, session, started, sw, dir0, jobs, purged, latest, conv, named>>

\* the server closes the response and cleanup_after_download starts, lines
\* 229-233.  The callback runs after the view has returned: flask.session is
\* bound to the request context, and either the context is still there and the
\* three paths are read, or it has been popped and session.get raises
\* RuntimeError, which the except clause of lines 255-256 prints.
DClose(r) ==
    /\ req[r].pc = "d_close"
    /\ LET q == req[r]
           ss == session[q.sid]
       IN  \E bound \in BOOLEAN :
              IF bound
              THEN Set(r, [q EXCEPT !.pc = "c_delete",
                              !.got = [input_path |-> SessionGetPath(ss, "input_path"),
                                       gif_path |-> SessionGetPath(ss, "gif_path"),
                                       static_gif_path |->
                                           SessionGetPath(ss, "static_gif_path")]])
              ELSE Set(r, Finished([q EXCEPT !.exc = "RuntimeError"], "200"))
    /\ UNCHANGED <<now, ticks, fs, session, started, sw, dir0, jobs, purged, latest, conv, named>>

\* lines 236-240
delete_input_and_gif(f, got) ==
    LET f1 == IF got.input_path.some THEN delete_file_safely(f, got.input_path.v) ELSE f
    IN  IF got.gif_path.some THEN delete_file_safely(f1, got.gif_path.v) ELSE f1

CDelete(r) ==
    /\ req[r].pc = "c_delete"
    /\ fs' = delete_input_and_gif(fs, req[r].got)
    /\ Set(r, [req[r] EXCEPT !.pc = "c_islink"])
    /\ UNCHANGED <<now, ticks, session, started, sw, dir0, jobs, purged, latest, conv, named>>

\* lines 242 and 244-245: the test of the link, and the deletion of a preview
\* that is not a link
CIslink(r) ==
    /\ req[r].pc = "c_islink"
    /\ LET p == req[r].got.static_gif_path
       IN  IF p.some /\ islink(fs, p.v)
           THEN /\ Set(r, [req[r] EXCEPT !.pc = "c_unlink"])
                /\ fs' = fs
           ELSE /\ Set(r, [req[r] EXCEPT !.pc = "c_pop"])
                /\ fs' = IF p.some THEN delete_file_safely(fs, p.v) ELSE fs
    /\ UNCHANGED <<now, ticks, session, started, sw, dir0, jobs, purged, latest, conv, named>>

\* line 243: os.unlink raises FileNotFoundError when the link has been removed
\* since the test; the except clause of lines 255-256 prints it and the pops
\* of lines 248-253 are skipped
CUnlink(r) ==
    /\ req[r].pc = "c_unlink"
    /\ LET p == req[r].got.static_gif_path.v
       IN  IF LExists(fs, p)
           THEN /\ fs' = remove(fs, p)
                /\ Set(r, [req[r] EXCEPT !.pc = "c_pop"])
           ELSE /\ fs' = fs
                /\ Set(r, Finished([req[r] EXCEPT !.exc = "FileNotFoundError"], "200"))
    /\ UNCHANGED <<now, ticks, session, started, sw, dir0, jobs, purged, latest, conv, named>>

\* lines 248-253
CPop(r) ==
    /\ req[r].pc = "c_pop"
    /\ session' = [session EXCEPT ![req[r].sid] = SessionPop(@, JobKeys)]
    /\ purged' = purged \cup {req[r].fname}
    /\ Set(r, Finished([req[r] EXCEPT !.exc = "cleaned"], "200"))
    /\ UNCHANGED <<now, ticks, fs, started, sw, dir0, jobs, latest, conv, named>>

(***************************************************************************)
(* Time passes: by a second, or by more than a day.                        *)
(***************************************************************************)
TickSteps == {1, DefaultMaxAgeHours * SecondsPerHour + 1}

Tick ==
    /\ ticks < MaxTicks
    /\ \E d \in TickSteps : now' = now + d
    /\ ticks' = ticks + 1
    /\ UNCHANGED <<fs, session, req, started, sw, dir0, jobs, purged, latest, conv, named>>

(***************************************************************************)
(* The application: the directories exist and are empty (lines 19-21), no  *)
(* session holds a job, no request is being served.                        *)
(***************************************************************************)
NoSweep ==
    [pc |-> "off", max_age_hours |-> 0, current_time |-> 0, todo |-> << >>,
     cur |-> << >>]

NoConv == [pc |-> "off", start_time |-> None, end_time |-> None, fps |-> 0,
           width |-> None, cmd |-> << >>]

NoNamed ==
    [pc |-> "off", t1 |-> 0, f1 |-> << >>, t2 |-> 0, f2 |-> << >>,
     raw1 |-> << >>, gif1 |-> << >>, raw2 |-> << >>, gif2 |-> << >>]

Sweepers == {1, 2}

Init ==
    /\ now = 0
    /\ ticks = 0
    /\ fs = [d \in Dirs |-> EmptyDir]
    /\ session = [s \in Sessions |-> EmptySession]
    /\ req = [r \in Workers |-> Idle]
    /\ started = 0
    /\ sw = [p \in Sweepers |-> NoSweep]
    /\ dir0 = [d \in Dirs |-> EmptyDir]
    /\ jobs = {}
    /\ purged = {}
    /\ latest = [s \in Sessions |-> NoJob]
    /\ conv = NoConv
    /\ named = NoNamed

\* the steps of the request of worker r once it has arrived
Step(r) ==
    \/ UBegin(r)
    \/ USave(r)
    \/ UConvertStart(r)
    \/ UConvertEnd(r)
    \/ UExists(r)
    \/ USymlink(r)
    \/ USession(r)
    \/ UExcept(r)
    \/ RView(r)
    \/ PView(r)
    \/ DView(r)
    \/ DStream(r)
    \/ DClose(r)
    \/ CDelete(r)
    \/ CIslink(r)
    \/ CUnlink(r)
    \/ CPop(r)

Next ==
    \/ Tick
    \/ \E r \in Workers : BeforeRequest(r) \/ Step(r)

Spec == Init /\ [][Next]_vars

(***************************************************************************)
(* The same application followed for one request more.                     *)
(***************************************************************************)
BeforeRequestDeep(r) == Arrive(r, UploadNames, Forms, Kinds, MaxRequests + 1)

NextDeep ==
    \/ Tick
    \/ \E r \in Workers : BeforeRequestDeep(r) \/ Step(r)

SpecDeep == Init /\ [][NextDeep]_vars

(***************************************************************************)
(* The same application serving its requests one at a time.                *)
(***************************************************************************)
FirstWorker == CHOOSE r \in Workers : \A q \in Workers : r <= q

NextSeq ==
    \/ Tick
    \/ BeforeRequestDeep(FirstWorker)
    \/ Step(FirstWorker)

SpecSeq == Init /\ [][NextSeq]_vars

(***************************************************************************)
(* The same application with a third thread: app.run(threaded=True) serves *)
(* every request in a thread of its own.  The uploads are of one file name *)
(* and all the requests arrive within one second.                          *)
(***************************************************************************)
Threads == Workers \cup {Cardinality(Workers) + 1}

BeforeRequestThreaded(r) ==
    Arrive(r, {<<"clip", ".", "mp4">>}, {NoForm}, Kinds, MaxRequests + 2)

InitThreaded ==
    /\ now = 0
    /\ ticks = 0
    /\ fs = [d \in Dirs |-> EmptyDir]
    /\ session = [s \in Sessions |-> EmptySession]
    /\ req = [r \in Threads |-> Idle]
    /\ started = 0
    /\ sw = [p \in Sweepers |-> NoSweep]
    /\ dir0 = [d \in Dirs |-> EmptyDir]
    /\ jobs = {}
    /\ purged = {}
    /\ latest = [s \in Sessions |-> NoJob]
    /\ conv = NoConv
    /\ named = NoNamed

NextThreaded ==
    \E r \in Threads : BeforeRequestThreaded(r) \/ Step(r)

SpecThreaded == InitThreaded /\ [][NextThreaded]_vars

(***************************************************************************)
(* Upload requests over a grid of file names and forms, served one at a    *)
(* time.                                                                   *)
(***************************************************************************)
WideNames ==
    UploadNames \cup
    { <<"clip">>,
      <<"clip", ".", "MOV">>,
      <<".", ".", "/", "clip", ".", "mp4">> }

FormGrid ==
    [fps : {Absent, <<"0">>, <<"x">>},
     width : {<< >>, <<"0">>},
     start_time : {<< >>, <<"5">>, <<"a", "b", "c">>},
     end_time : {<< >>, <<"2", ".", "5">>, <<"x">>}]

BeforeRequestWide(r) == Arrive(r, WideNames, FormGrid, {"upload"}, MaxRequests)

\* the steps of an upload request
StepUpload(r) ==
    \/ UBegin(r)
    \/ USave(r)
    \/ UConvertStart(r)
    \/ UConvertEnd(r)
    \/ UExists(r)
    \/ USymlink(r)
    \/ USession(r)
    \/ UExcept(r)

NextUpload ==
    \/ Tick
    \/ BeforeRequestWide(FirstWorker)
    \/ StepUpload(FirstWorker)

SpecUpload == Init /\ [][NextUpload]_vars

(***************************************************************************)
(* Properties of the download and of the failed conversion.                *)
(***************************************************************************)
(***************************************************************************)
(* clean_old_files, lines 28-38, one system call per step.  Sweeper p is   *)
(* the call made by one request thread over the preview directory, which   *)
(* holds links into gifs/; the other sweeper is the call of a concurrent   *)
(* request.                                                                *)
(***************************************************************************)
\* directory entries present when the sweeps begin
MaxFiles == 3

SweepDir == STATIC_GIFS

\* the names os.listdir may return, in the order it returns them
NameOrder == [i \in 1..MaxFiles |-> <<"f", ToString(i)>>]

SweepNames == {NameOrder[i] : i \in 1..MaxFiles}

\* line 31: os.listdir(directory)
listdir(f, d) ==
    LET Present(n) == n \in DOMAIN f[d]
    IN  SelectSeq(NameOrder, Present)

\* the clock when the sweeps begin
SweepStart == (DefaultMaxAgeHours + 2) * SecondsPerHour

\* ages of the files, in seconds: half an hour, two hours, max_age exactly,
\* an hour more
SweepAges ==
    {SecondsPerHour \div 2, 2 * SecondsPerHour,
     DefaultMaxAgeHours * SecondsPerHour, (DefaultMaxAgeHours + 1) * SecondsPerHour}

Subdir == [kind |-> "dir", mtime |-> 0, size |-> 0, complete |-> TRUE]

\* a link made half an hour ago
SweepLink == Link(SweepStart - SecondsPerHour \div 2)

SweepEntries ==
    {File(SweepStart - a, 1, TRUE) : a \in SweepAges} \cup {Subdir, SweepLink}

\* what a link may point at: a file made with it, or a file an hour past
\* max_age; or nothing any more
SweepTargets ==
    {File(SweepStart - a, 1, TRUE) :
        a \in {SecondsPerHour \div 2, (DefaultMaxAgeHours + 1) * SecondsPerHour}}

SweepCall(h) == [NoSweep EXCEPT !.pc = "start", !.max_age_hours = h]

MaxAges == {SampledMaxAgeHours, DefaultMaxAgeHours}

InitSweep ==
    /\ now = SweepStart
    /\ ticks = 0
    /\ \E S \in SUBSET SweepNames : \E d \in [S -> SweepEntries] :
          \E T \in SUBSET {n \in S : d[n].kind = "link"} :
          \E g \in [T -> SweepTargets] :
             /\ fs = [x \in Dirs |-> IF x = SweepDir THEN d
                                     ELSE IF x = OUTPUT_FOLDER THEN g
                                     ELSE EmptyDir]
             /\ dir0 = fs
    /\ session = [s \in Sessions |-> EmptySession]
    /\ req = [r \in Workers |-> Idle]
    /\ started = 0
    /\ \E h \in MaxAges, c \in {NoSweep} \cup {SweepCall(k) : k \in MaxAges} :
          sw = [p \in Sweepers |-> IF p = 1 THEN SweepCall(h) ELSE c]
    /\ jobs = {}
    /\ purged = {}
    /\ latest = [s \in Sessions |-> NoJob]
    /\ conv = NoConv
    /\ named = NoNamed

SwSet(p, rec) == sw' = [sw EXCEPT ![p] = rec]

\* lines 30-31: current_time = time.time(); os.listdir(directory)
SwBegin(p) ==
    /\ sw[p].pc = "start"
    /\ SwSet(p, [sw[p] EXCEPT !.pc = "loop", !.current_time = now,
                              !.todo = listdir(fs, SweepDir)])
    /\ UNCHANGED <<now, ticks, fs, session, req, started, dir0, jobs, purged, latest, conv, named>>

\* lines 31-34: the next name of the listing; os.path.isfile(file_path)
SwIsFile(p) ==
    /\ sw[p].pc = "loop"
    /\ sw[p].todo # << >>
    /\ LET n == Head(sw[p].todo)
       IN  SwSet(p, [sw[p] EXCEPT !.todo = Tail(@), !.cur = n,
                                 !.pc = IF isfile(fs, Path(SweepDir, n))
                                        THEN "getmtime" ELSE "loop"])
    /\ UNCHANGED <<now, ticks, fs, session, req, started, dir0, jobs, purged, latest, conv, named>>

\* line 34: os.path.getmtime(file_path), outside the try: it raises
\* FileNotFoundError out of clean_old_files when the file is gone
SwGetMTime(p) ==
    /\ sw[p].pc = "getmtime"
    /\ LET path == Path(SweepDir, sw[p].cur)
       IN  SwSet(p, [sw[p] EXCEPT !.pc =
               IF ~exists(fs, path) THEN "raised"
               ELSE IF too_old(sw[p].current_time, getmtime(fs, path),
                               sw[p].max_age_hours)
               THEN "remove" ELSE "loop"])
    /\ UNCHANGED <<now, ticks, fs, session, req, started, dir0, jobs, purged, latest, conv, named>>

\* lines 35-38: os.remove(file_path); an exception is printed and the loop
\* goes on
SwRemove(p) ==
    /\ sw[p].pc = "remove"
    /\ LET path == Path(SweepDir, sw[p].cur)
       IN  fs' = IF LExists(fs, path) THEN remove(fs, path) ELSE fs
    /\ SwSet(p, [sw[p] EXCEPT !.pc = "loop"])
    /\ UNCHANGED <<now, ticks, session, req, started, dir0, jobs, purged, latest, conv, named>>

\* the listing is exhausted: clean_old_files returns
SwReturn(p) ==
    /\ sw[p].pc = "loop"
    /\ sw[p].todo = << >>
    /\ SwSet(p, [sw[p] EXCEPT !.pc = "returned"])
    /\ UNCHANGED <<now, ticks, fs, session, req, started, dir0, jobs, purged, latest, conv, named>>

NextSweep ==
    \E p \in Sweepers :
        \/ SwBegin(p)
        \/ SwIsFile(p)
        \/ SwGetMTime(p)
        \/ SwRemove(p)
        \/ SwReturn(p)

SpecSweep == InitSweep /\ [][NextSweep]_vars

(***************************************************************************)
(* convert_video_to_gif, lines 59-83, over a grid of parameter sets.       *)
(***************************************************************************)
\* the longest time of the grid, in seconds
MaxSeconds == 5

\* times in tenths of a second, as float_of gives them
Times == {None} \cup {Some(10 * k) : k \in 0..MaxSeconds}

FpsValues == {1, DefaultFps, DefaultFps + 2}

Widths == {None, Some(320)}

CmdInput == Path(UPLOAD_FOLDER, <<"0", "_", "clip", ".", "mp4">>)

CmdOutput == Path(OUTPUT_FOLDER, <<"0", "_", "clip", ".", "gif">>)

InitCmd ==
    /\ now = 0
    /\ ticks = 0
    /\ fs = [d \in Dirs |-> EmptyDir]
    /\ session = [s \in Sessions |-> EmptySession]
    /\ req = [r \in Workers |-> Idle]
    /\ started = 0
    /\ sw = [p \in Sweepers |-> NoSweep]
    /\ dir0 = [d \in Dirs |-> EmptyDir]
    /\ jobs = {}
    /\ purged = {}
    /\ latest = [s \in Sessions |-> NoJob]
    /\ \E st \in Times, en \in Times, f \in FpsValues, w \in Widths :
          conv = [NoConv EXCEPT !.pc = "call", !.start_time = st, !.end_time = en,
                                !.fps = f, !.width = w]
    /\ named = NoNamed

\* lines 59-83: the command is built from the parameters
Convert ==
    /\ conv.pc = "call"
    /\ conv' = [conv EXCEPT !.pc = "built",
                            !.cmd = BuildCmd(CmdInput, CmdOutput, conv.start_time,
                                             conv.end_time, conv.fps, conv.width)]
    /\ UNCHANGED <<now, ticks, fs, session, req, started, sw, dir0, jobs, purged, latest, named>>

NextCmd == Convert

SpecCmd == InitCmd /\ [][NextCmd]_vars

(***************************************************************************)
(* upload_file, lines 143-153: the names given to two uploads.             *)
(***************************************************************************)
\* the latest second an upload takes its timestamp in
MaxStamp == 2

Stamps == 0..MaxStamp

\* file names that pass allowed_file
NameGrid ==
    { <<"clip", ".", "mp4">>,
      <<"clip", ".", "MOV">>,
      <<".", ".", "/", "clip", ".", "mp4">>,
      <<"clip", ".", "old", ".", "mp4">>,
      <<"film", ".", "mp4">> }

InitNames ==
    /\ now = 0
    /\ ticks = 0
    /\ fs = [d \in Dirs |-> EmptyDir]
    /\ session = [s \in Sessions |-> EmptySession]
    /\ req = [r \in Workers |-> Idle]
    /\ started = 0
    /\ sw = [p \in Sweepers |-> NoSweep]
    /\ dir0 = [d \in Dirs |-> EmptyDir]
    /\ jobs = {}
    /\ purged = {}
    /\ latest = [s \in Sessions |-> NoJob]
    /\ conv = NoConv
    /\ \E a \in Stamps, b \in Stamps, f \in NameGrid, g \in NameGrid :
          /\ allowed_file(f)
          /\ allowed_file(g)
          /\ named = [NoNamed EXCEPT !.pc = "call", !.t1 = a, !.f1 = f,
                                     !.t2 = b, !.f2 = g]

\* lines 143-144 and 151 for each of the two uploads
AssignNames ==
    /\ named.pc = "call"
    /\ named' = [named EXCEPT
           !.pc = "named",
           !.raw1 = raw_filename(named.t1, named.f1),
           !.gif1 = gif_filename_of(raw_filename(named.t1, named.f1)),
           !.raw2 = raw_filename(named.t2, named.f2),
           !.gif2 = gif_filename_of(raw_filename(named.t2, named.f2))]
    /\ UNCHANGED <<now, ticks, fs, session, req, started, sw, dir0, jobs, purged,
                   latest, conv>>

NextNames == AssignNames

SpecNames == InitNames /\ [][NextNames]_vars

CleanupPcs == {"c_delete", "c_islink", "c_unlink", "c_pop"}

Serving(r) == req[r].pc \notin {"idle", "done"}

Others(r) == Workers \ {r}

\* C1: a step of a download request changes the directories only after the
\* body of its response has been delivered: cleanup_after_download runs from
\* the close of the response, never before or during streaming.
C1_PurgeOnlyAfterDelivery ==
    [][\A r \in Workers :
          (req[r].kind = "download" /\ Serving(r) /\ req'[r] # req[r] /\ fs' # fs)
              => req[r].delivered /\ req[r].pc \in CleanupPcs]_vars

\* C1, witness: a cleanup has deleted the artifact it read from the session,
\* after the delivery of the body
C1_Witness ==
    \E r \in Workers :
        /\ req[r].pc = "c_islink"
        /\ req[r].delivered
        /\ req[r].got.gif_path.some
        /\ ~LExists(fs, req[r].got.gif_path.v)
        /\ req[r].got.gif_path.v.name = req[r].fname

\* the three files of job j
JobFiles(j) ==
    {Path(UPLOAD_FOLDER, j.input), Path(OUTPUT_FOLDER, j.gif), Path(STATIC_GIFS, j.gif)}

\* C2: when a download has completed in a session (its cleanup ran to the
\* end), the raw upload, the artifact and the preview of the job of that
\* session whose artifact was downloaded are absent.
C2_DownloadPurgesJob ==
    [][\A r \in Workers :
          (req[r].pc = "c_pop" /\ req'[r].pc = "done")
              => \A j \in jobs :
                    (j.sid = req[r].sid /\ j.gif = req[r].fname)
                        => \A p \in JobFiles(j) : ~LExists(fs', p)]_vars

\* C3: a cleanup that has read the paths from the session ends with every job
\* key removed from the session, whether its deletions failed or not (stated
\* for the cleanups that end while no upload is being served).
C3_CleanupClearsSession ==
    [][\A r \in Workers :
          (/\ req[r].pc \in CleanupPcs
           /\ req'[r].pc = "done"
           /\ \A q \in Others(r) : Free(q) \/ req[q].kind # "upload")
              => (DOMAIN session'[req[r].sid]) \cap JobKeys = {}]_vars

\* C4: a step of an upload whose conversion has failed writes nothing to the
\* session, and its last step leaves the raw upload absent and answers with
\* the redirect to the upload form.
C4_FailedConversionCleansUp ==
    [][\A r \in Workers :
          (req'[r].exc = "FFmpeg error" /\ req'[r] # req[r])
              => /\ session' = session
                 /\ req'[r].pc \in {"u_except", "done"}
                 /\ req'[r].pc = "done"
                       => /\ ~LExists(fs', InputPath(req[r]))
                          /\ req'[r].status = "302 upload"]_vars

\* C4, witness: an upload has ended on a failed conversion, after FFmpeg had
\* started writing its output; no raw upload is left and no session holds a job
C4_Witness ==
    \E r \in Workers :
        /\ req[r].pc = "done"
        /\ req[r].kind = "upload"
        /\ req[r].exc = "FFmpeg error"
        /\ req[r].status = "302 upload"
        /\ fs[UPLOAD_FOLDER] = EmptyDir
        /\ fs[OUTPUT_FOLDER] # EmptyDir
        /\ \A s \in Sessions : session[s] = EmptySession

\* C10: a download of a name with no file in gifs/ ends in the view with 404:
\* the step deletes nothing and leaves the sessions as they are.
C10_MissingArtifactNoPurge ==
    [][\A r \in Workers :
          (/\ req[r].pc = "d_view"
           /\ req[r].fname \notin DOMAIN fs[OUTPUT_FOLDER]
           /\ req'[r] # req[r])
              => /\ req'[r].pc = "done"
                 /\ req'[r].status = "404"
                 /\ fs' = fs
                 /\ session' = session]_vars

\* C10, witness: a download was answered 404 in a session that holds a job
\* whose three files are still there
C10_Witness ==
    \E r \in Workers :
        /\ req[r].pc = "done"
        /\ req[r].kind = "download"
        /\ req[r].status = "404"
        /\ JobKeys \subseteq DOMAIN session[req[r].sid]
        /\ LExists(fs, session[req[r].sid]["input_path"])
        /\ LExists(fs, session[req[r].sid]["gif_path"])
        /\ LExists(fs, session[req[r].sid]["static_gif_path"])

\* what the claims call a validation rejection of an upload: no file part, an
\* empty file name, an extension outside the allowed set, or a start or end
\* time that is given and is not a number
HasAllowedExtension(f) ==
    \E i \in 1..Len(f) :
        /\ f[i] = "."
        /\ i + 1 = Len(f)
        /\ Lower(f[i + 1]) \in ALLOWED_EXTENSIONS

Unparsable(t) == t # Absent /\ t # << >> /\ ~float_of(t).ok

Rejected(q) ==
    \/ ~q.haspart
    \/ q.fname = << >>
    \/ ~HasAllowedExtension(q.fname)
    \/ Unparsable(q.form.start_time)
    \/ Unparsable(q.form.end_time)

\* no entry of directory d was created or rewritten by the step
NothingWritten(d) ==
    \A n \in DOMAIN fs'[d] : n \in DOMAIN fs[d] /\ fs'[d][n] = fs[d][n]

\* C5: no step of an upload request that validation rejects writes a file in
\* any of the three directories or changes a session.
C5_RejectedUploadWritesNothing ==
    [][\A r \in Workers :
          (/\ req[r].kind = "upload"
           /\ Serving(r)
           /\ Rejected(req[r])
           /\ req'[r] # req[r])
              => (\A d \in Dirs : NothingWritten(d)) /\ session' = session]_vars

\* C5, witness: an upload with an unparsable time has been answered and the
\* directories and the sessions are empty
C5_Witness ==
    \E r \in Workers :
        /\ req[r].pc = "done"
        /\ req[r].kind = "upload"
        /\ req[r].exc = "Invalid time format"
        /\ req[r].status = "302 upload"
        /\ \A d \in Dirs : fs[d] = EmptyDir
        /\ \A x \in Sessions : session[x] = EmptySession

\* parameters the encoder is meant to get: positive frame rate, positive
\* width when given, end after start when both are given
WellFormed(p) ==
    /\ p.fps > 0
    /\ p.width.some => p.width.v > 0
    /\ (p.start_time.some /\ p.end_time.some) => p.end_time.v > p.start_time.v

\* C6: the encoder runs only with well-formed parameters.
C6_EncoderGetsWellFormedParams ==
    \A r \in Workers : req[r].pc = "u_converting" => WellFormed(req[r].params)

\* the values that follow option opt in command c
ValuesAfter(c, opt) ==
    {c[i + 1] : i \in {k \in 1..(Len(c) - 1) : c[k] = Arg(opt)}}

\* C7: the command carries the frame rate as the output rate, a seek to the
\* start exactly when a start is given, and a duration of end minus start
\* exactly when both are given.
C7_CommandDerivation ==
    conv.pc = "built" =>
        /\ ValuesAfter(conv.cmd, "-r") = {Str(conv.fps)}
        /\ ValuesAfter(conv.cmd, "-ss") =
               IF conv.start_time.some THEN {Str(conv.start_time.v)} ELSE {}
        /\ ValuesAfter(conv.cmd, "-t") =
               IF conv.start_time.some /\ conv.end_time.some
               THEN {Str(conv.end_time.v - conv.start_time.v)} ELSE {}

\* C7, witness: start 2 s, end 5 s and 12 fps give a duration of 3 s and an
\* output rate of 12
C7_Witness ==
    /\ conv.pc = "built"
    /\ conv.start_time = Some(20)
    /\ conv.end_time = Some(50)
    /\ conv.fps = 12
    /\ ValuesAfter(conv.cmd, "-t") = {Str(30)}
    /\ ValuesAfter(conv.cmd, "-ss") = {Str(20)}
    /\ ValuesAfter(conv.cmd, "-r") = {Str(12)}

\* entry n of the swept directory, as the sweeps found it, is a regular file
\* older than h hours at time t
OldFile(n, t, h) ==
    LET e == dir0[SweepDir][n]
    IN  e.kind = "file" /\ t - e.mtime > h * SecondsPerHour

\* entry n of the swept directory, as the sweeps found it, is a link to a
\* regular file older than h hours at time t
OldLink(n, t, h) ==
    /\ dir0[SweepDir][n].kind = "link"
    /\ n \in DOMAIN dir0[OUTPUT_FOLDER]
    /\ dir0[OUTPUT_FOLDER][n].kind = "file"
    /\ t - dir0[OUTPUT_FOLDER][n].mtime > h * SecondsPerHour

\* the swept directory without the entries in Gone
Without(Gone) ==
    [n \in (DOMAIN dir0[SweepDir]) \ Gone |-> dir0[SweepDir][n]]

\* a clean_old_files call ran alone and has returned
SweptAlone == sw[1].pc = "returned" /\ sw[2].pc = "off"

\* C8, as claimed: a clean_old_files call that ran alone and returned has
\* removed exactly the regular files older than max_age_hours and has left
\* every other entry in place.
C8_SweepRemovesExactlyOldFiles ==
    SweptAlone =>
        fs[SweepDir] =
            Without({n \in DOMAIN dir0[SweepDir] :
                        OldFile(n, sw[1].current_time, sw[1].max_age_hours)})

\* C8, amended: a clean_old_files call that ran alone and returned has removed
\* exactly the regular files older than max_age_hours and the links to
\* regular files older than max_age_hours, and has left every other entry, and
\* the other directories, in place.
C8_SweepRemovesExactlyOld ==
    SweptAlone =>
        /\ fs[SweepDir] =
               Without({n \in DOMAIN dir0[SweepDir] :
                           \/ OldFile(n, sw[1].current_time, sw[1].max_age_hours)
                           \/ OldLink(n, sw[1].current_time, sw[1].max_age_hours)})
        /\ \A d \in Dirs \ {SweepDir} : fs[d] = dir0[d]

\* C8, witness: of a file aged half an hour, a file aged 25 hours and a link
\* to a file aged 25 hours, a sweep with max_age_hours = 24 has left the
\* first only
C8_Witness ==
    /\ SweptAlone
    /\ sw[1].max_age_hours = DefaultMaxAgeHours
    /\ Cardinality(DOMAIN dir0[SweepDir]) = 3
    /\ \E a, b, c \in DOMAIN dir0[SweepDir] :
          /\ dir0[SweepDir][a] = File(now - SecondsPerHour \div 2, 1, TRUE)
          /\ OldFile(b, now, DefaultMaxAgeHours)
          /\ OldLink(c, now, DefaultMaxAgeHours)
          /\ DOMAIN fs[SweepDir] = {a}
          /\ c \in DOMAIN fs[OUTPUT_FOLDER]

\* C9: no clean_old_files call ends by raising, whatever a concurrent call
\* removes meanwhile.
C9_SweepNeverRaises ==
    \A p \in Sweepers : sw[p].pc # "raised"

\* C11: once a download of a file has run its cleanup to the end, a further
\* download of the same file name is answered not-found or repeats the cleanup
\* without effect: none of its steps changes the directories.
C11_RepeatDownloadIdempotent ==
    [][\A r \in Workers :
          (/\ req[r].kind = "download"
           /\ Serving(r)
           /\ req[r].fname \in purged
           /\ req'[r] # req[r])
              => fs' = fs]_vars

\* the keys of a job record that the claims name
RecordKeys == {"gif_filename", "input_path", "gif_path", "static_gif_path"}

\* C12: in every state the job record of a session is all or nothing: the
\* session holds gif_filename and the three paths, or none of them.
C12_SessionRecordAllOrNothing ==
    \A s \in Sessions :
        \/ RecordKeys \subseteq DOMAIN session[s]
        \/ RecordKeys \cap DOMAIN session[s] = {}

\* C13: two uploads are given the same raw file name, or the same artifact and
\* preview file name, only if they took their timestamp in the same second and
\* their sanitized names are identical.
C13_NamesCollideOnlyOnSameSecondSameName ==
    named.pc = "named" =>
        ((named.raw1 = named.raw2 \/ named.gif1 = named.gif2)
            => /\ named.t1 = named.t2
               /\ secure_filename(named.f1) = secure_filename(named.f2))

\* C14: the result view renders only for a session that holds a job record,
\* and what it renders is the generated name, the display name and the size of
\* the last job that an upload of that session recorded; without a record it
\* redirects to the upload form.
C14_ResultShowsLatestJob ==
    [][\A r \in Workers :
          (req[r].pc = "r_view" /\ req'[r] # req[r])
              => LET s == req[r].sid
                     out == req'[r]
                 IN  IF "gif_filename" \in DOMAIN session[s]
                     THEN /\ out.shown.rendered
                          /\ out.shown.gif_filename = latest[s].gif
                          /\ out.shown.original_filename = latest[s].original
                          /\ out.shown.gif_size = MB(latest[s].size)
                     ELSE /\ ~out.shown.rendered
                          /\ out.status = "302 upload"]_vars


\* the raw uploads whose artifact is named g: the timestamp and the root of
\* the name are those of g
Siblings(f, g) == {n \in DOMAIN f[UPLOAD_FOLDER] : gif_filename_of(n) = g}

\* C15: when the cleanup of a download ends in a session that held no job
\* record (none of the three paths was read), no raw upload whose name has
\* the timestamp and the root of the downloaded artifact remains.
C15_RecordlessDownloadDeletesSibling ==
    [][\A r \in Workers :
          (req[r].pc = "c_pop" /\ req'[r].pc = "done" /\ req[r].got = NoGot)
              => Siblings(fs', req[r].fname) = {}]_vars


\* C16: the step that publishes the preview (os.symlink, after the removal of
\* lines 168-169) never fails on an entry already at the target name, and
\* leaves there a link to the artifact of this upload.
C16_PublishReplacesStaleEntry ==
    [][\A r \in DOMAIN req :
          (req[r].pc = "u_symlink" /\ req'[r] # req[r])
              => /\ req'[r].exc # "FileExistsError"
                 /\ req'[r].pc = "u_session"
                 /\ islink(fs', StaticGifPath(req[r]))
                 /\ Resolve(fs', StaticGifPath(req[r])) = GifPath(req[r])]_vars


\* C17: a download or a preview that is answered with the content of an
\* artifact reads a file whose conversion has completed, never one FFmpeg is
\* still writing.
C17_NoReadOfArtifactBeingWritten ==
    [][\A r \in Workers :
          (/\ req[r].pc \in {"d_view", "p_view"}
           /\ req'[r] # req[r]
           /\ req'[r].pc = "d_stream" \/ req'[r].status = "200")
              => fs[OUTPUT_FOLDER][req[r].fname].complete]_vars


\* the entries a cleanup triggered by the download of artifact g may delete:
\* the artifact, its preview, and the raw uploads the artifact was made from
OwnFiles(f, g) ==
    {Path(OUTPUT_FOLDER, g), Path(STATIC_GIFS, g)}
        \cup {Path(UPLOAD_FOLDER, n) : n \in Siblings(f, g)}

\* the entries of f that are no longer in f2
Deleted(f, f2) ==
    {p \in [dir : Dirs, name : UNION {DOMAIN f[e] : e \in Dirs}] :
        LExists(f, p) /\ ~LExists(f2, p)}

\* C18: every entry a step of the cleanup of a download of F deletes, F the
\* artifact of a recorded job, is a file of the job whose artifact is F.
C18_CleanupDeletesOnlyOwnJob ==
    [][\A r \in Workers :
          (/\ req[r].pc \in CleanupPcs
           /\ req'[r] # req[r]
           /\ \E j \in jobs : j.gif = req[r].fname)
              => Deleted(fs, fs') \subseteq OwnFiles(fs, req[r].fname)]_vars


\* every file job j still has was last written more than max_age_hours ago
AllOld(f, j, t, max_age_hours) ==
    \A p \in JobFiles(j) :
        LExists(f, p) => (t - f[p.dir][p.name].mtime) > max_age_hours * SecondsPerHour

\* C19: after the sweep an upload request starts with (uploads, gifs,
\* static/gifs, in that order), a job whose files are all older than max_age
\* has none of its raw upload, artifact and preview left.
C19_SweepReclaimsWholeJob ==
    [][\A r \in Workers :
          (req[r].pc = "u_begin" /\ req'[r] # req[r])
              => \A j \in jobs :
                    AllOld(fs, j, now, DefaultMaxAgeHours)
                        => \A p \in JobFiles(j) : ~LExists(fs', p)]_vars


\* C20: no step of the cleanup of one download deletes an artifact that
\* another download of the same artifact is still streaming.
C20_NoDeleteWhileStreaming ==
    [][\A r \in Workers :
          (req[r].pc \in CleanupPcs /\ req'[r] # req[r])
              => \A q \in Others(r) :
                    (req[q].kind = "download" /\ req[q].pc = "d_stream"
                        /\ req[q].fname = req[r].fname)
                        => (LExists(fs, Path(OUTPUT_FOLDER, req[q].fname))
                               => LExists(fs', Path(OUTPUT_FOLDER, req[q].fname)))]_vars

====
